---- MODULE Spec2Model ----
(***************************************************************************)
(* Model of the pushr chat front end: the Home controller of               *)
(* src/frontend/src/app/page.tsx and the BrowserAgentService client of     *)
(* src/unnamed/part_000 (imported as ./utils/browserAgentService).          *)
(*                                                                         *)
(* Texts are sequences of one-character strings; a fixed literal of the    *)
(* program is a one-token sequence.  An optional field (content?, error?,  *)
(* an absent results array) is a sequence of length 0 (absent) or 1.       *)
(* Task id 0 stands for null.  Message ids are drawn from a counter: the   *)
(* Date.now()/Math.random() ids of addMessage are taken to be unique.      *)
(* A message's timestamp is never read and is left out.                    *)
(*                                                                         *)
(* History kept beside the program's state: a request remembers the        *)
(* message list and idleness at its submission (m0, idle0), an interval    *)
(* remembers whether its task was cancelled, and log counts per task the   *)
(* clearInterval calls and the assistant messages of its poll callbacks,   *)
(* and whether its interval, while active, has handled a non-terminal      *)
(* snapshot.                                                               *)
(***************************************************************************)
EXTENDS Integers, Sequences, FiniteSets, Bags, TLC

VARIABLES task, messages, loading, taskId, showBrowser,
          intervals, pending, nextMsgId, nextTaskId,
          submits, cancels, crIn, crOut, log

ctl == <<task, messages, loading, taskId, showBrowser>>
env == <<intervals, pending, nextMsgId, nextTaskId>>
caps == <<submits, cancels>>
pure == <<crIn, crOut>>
vars == <<task, messages, loading, taskId, showBrowser,
          intervals, pending, nextMsgId, nextTaskId,
          submits, cancels, crIn, crOut, log>>

----------------------------------------------------------------------------
(* Bounds of the model *)

MaxSubmits == 2
MaxCancels == 1
MaxInflight == 2
MaxSteps == 3

----------------------------------------------------------------------------
(* Literals of the program (the source's Russian texts, in English) *)

RunningMsg == <<"Running the task...">>
OpeningMsg == <<"Opening the browser and running the task...">>
RunErrorMsg == <<"Error while running the task">>
StartErrorMsg == <<"Error while starting the task">>
StatusErrorMsg == <<"Error while checking the task status">>
CancelledMsg == <<"Task cancelled">>
CancelErrorMsg == <<"Error while cancelling the task">>
FallbackMsg == <<"Task completed with no results">>
NoResults == <<"No results">>
Separator == <<"\n", "\n">>

Whitespace == {" ", "\n"}

(* What the user can type and what /run can answer *)
Inputs == {<<" ">>, <<" ", "a">>}
RunResults == {<<"r">>}
Absent == <<>>

----------------------------------------------------------------------------
(* Pure helpers *)

RECURSIVE TrimLeft(_)
TrimLeft(s) ==
  IF s # <<>> /\ Head(s) \in Whitespace THEN TrimLeft(Tail(s)) ELSE s

RECURSIVE TrimRight(_)
TrimRight(s) ==
  IF s # <<>> /\ s[Len(s)] \in Whitespace
  THEN TrimRight(SubSeq(s, 1, Len(s) - 1)) ELSE s

Trim(s) == TrimRight(TrimLeft(s))

(* JavaScript truthiness of an optional string *)
Truthy(opt) == opt # Absent /\ opt[1] # <<>>

RECURSIVE Join(_, _)
Join(parts, sep) ==
  IF parts = <<>> THEN <<>>
  ELSE IF Len(parts) = 1 THEN parts[1]
  ELSE parts[1] \o sep \o Join(Tail(parts), sep)

(* the filter testing for a present content instead of a truthy one *)
FilterContentPresent(steps) ==
  SelectSeq(steps, LAMBDA step : step.content # Absent)

FilterContent(steps) == SelectSeq(steps, LAMBDA step : Truthy(step.content))

MapContent(steps) == [i \in 1..Len(steps) |-> steps[i].content[1]]

combineResults(results) ==
  IF results = Absent \/ Len(results[1]) = 0
  THEN NoResults
  ELSE Join(MapContent(FilterContent(results[1])), Separator)

(* the chain with the error text tried first *)
OrElseErrorFirst(a, b, c) == IF Truthy(b) THEN b[1] ELSE IF a # <<>> THEN a ELSE c

(* a || b || c on strings, b optional *)
OrElse(a, b, c) == IF a # <<>> THEN a ELSE IF Truthy(b) THEN b[1] ELSE c

addMessage(ms, id, content, type) ==
  Append(ms, [id |-> id, type |-> type, content |-> content])

(* removeMessage filtering on the type instead of the id *)
removeMessageByType(ms, id) == SelectSeq(ms, LAMBDA msg : msg.type # "system")

removeMessage(ms, id) == SelectSeq(ms, LAMBDA msg : msg.id # id)

----------------------------------------------------------------------------
(* Requests in flight, intervals and the answers of the service *)

Req(kind, tid, lmid, text, m0, idle0) ==
  [kind |-> kind, tid |-> tid, lmid |-> lmid, text |-> text,
   m0 |-> m0, idle0 |-> idle0]

StatusReq(timer) == Req("status", timer.tid, timer.lmid, <<>>, <<>>, FALSE)

Interval(tid, lmid) == [tid |-> tid, lmid |-> lmid, cancelled |-> FALSE]

clearInterval(ivs, tid) == {timer \in ivs : timer.tid # tid}

Send(req) == pending (+) SetToBag({req})

Receive(req) == pending (-) SetToBag({req})

TaskResult(status, results, error) ==
  [status |-> status, results |-> results, error |-> error]

(* the test written as "anything but pending" *)
TerminalUnlessPending(status) == status # "pending"

Terminal(status) == status = "completed" \/ status = "failed"

StepD == [content |-> <<<<"d">>>>, error |-> Absent]
StepX == [content |-> Absent, error |-> <<<<"x">>>>]

(* The snapshots the service answers a status poll with *)
TaskResults ==
  {TaskResult("running", Absent, Absent),
   TaskResult("pending", Absent, Absent),
   TaskResult("completed", <<<<StepD>>>>, Absent),
   TaskResult("completed", <<<<StepX>>>>, Absent),
   TaskResult("failed", <<<<StepX>>>>, <<<<"e">>>>),
   TaskResult("failed", Absent, <<<<"e">>>>),
   TaskResult("failed", <<<<>>>>, Absent)}

StatusInFlight(tid) ==
  {req \in BagToSet(pending) : req.kind = "status" /\ req.tid = tid}

NoLog == [tid \in 1..MaxSubmits |-> [stops |-> 0, assistants |-> 0, waits |-> 0]]

Stopped(tid, assistant) ==
  [log EXCEPT ![tid].stops = @ + 1,
              ![tid].assistants = IF assistant THEN @ + 1 ELSE @,
              ![tid].waits = 0]

Waited(tid) ==
  IF \E timer \in intervals : timer.tid = tid
  THEN [log EXCEPT ![tid].waits = 1] ELSE log

Quiet == pending = EmptyBag /\ intervals = {}

Idle == ~loading /\ taskId = 0 /\ Quiet

----------------------------------------------------------------------------
Init ==
  /\ task = <<>>
  /\ messages = <<>>
  /\ loading = FALSE
  /\ taskId = 0
  /\ showBrowser = FALSE
  /\ intervals = {}
  /\ pending = EmptyBag
  /\ nextMsgId = 1
  /\ nextTaskId = 1
  /\ submits = 0
  /\ cancels = 0
  /\ crIn = Absent
  /\ crOut = Absent
  /\ log = NoLog

----------------------------------------------------------------------------
(* The user edits the textarea (disabled while loading) *)
TypeText(t) ==
  /\ ~loading
  /\ task' = t
  /\ UNCHANGED <<messages, loading, taskId, showBrowser, env, caps, pure, log>>

toggleBrowserMode ==
  /\ showBrowser' = ~showBrowser
  /\ UNCHANGED <<task, messages, loading, taskId, env, caps, pure, log>>

(* the guard testing the raw input instead of the trimmed one *)
SubmitUntrimmed(kind, transient) ==
  \/ /\ task = <<>>
     /\ UNCHANGED vars
  \/ /\ task # <<>>
     /\ submits < MaxSubmits
     /\ messages' = addMessage(addMessage(messages, nextMsgId, task, "user"),
                               nextMsgId + 1, transient, "system")
     /\ loading' = TRUE
     /\ nextMsgId' = nextMsgId + 2
     /\ pending' = Send(Req(kind, 0, nextMsgId + 1, task, messages, Idle))
     /\ submits' = submits + 1
     /\ UNCHANGED <<task, taskId, showBrowser, intervals, nextTaskId,
                    cancels, pure, log>>

(* Both submit handlers up to their await: user message, loading, transient *)
(* message, then the request leaves.                                        *)
Submit(kind, transient) ==
  \/ /\ Trim(task) = <<>>
     /\ UNCHANGED vars
  \/ /\ Trim(task) # <<>>
     /\ submits < MaxSubmits
     /\ messages' = addMessage(addMessage(messages, nextMsgId, task, "user"),
                               nextMsgId + 1, transient, "system")
     /\ loading' = TRUE
     /\ nextMsgId' = nextMsgId + 2
     /\ pending' = Send(Req(kind, 0, nextMsgId + 1, task, messages, Idle))
     /\ submits' = submits + 1
     /\ UNCHANGED <<task, taskId, showBrowser, intervals, nextTaskId,
                    cancels, pure, log>>

(* Enter reaches a submit handler while the textarea is enabled; the button *)
(* also needs a non-blank input.  showBrowser routes to one of the two.     *)
handleRun ==
  /\ ~loading
  /\ ~showBrowser
  /\ Submit("run", RunningMsg)

handleRunWithVisibleBrowser ==
  /\ ~loading
  /\ showBrowser
  /\ Submit("create", OpeningMsg)

(* handleRun without the removal of the transient message *)
RunResolvedKeepsTransient(req, result) ==
  /\ req.kind = "run"
  /\ BagIn(req, pending)
  /\ pending' = pending (-) SetToBag({req})
  /\ messages' = Append(messages, [id |-> nextMsgId, type |-> "assistant",
                                   content |-> result])
  /\ nextMsgId' = nextMsgId + 1
  /\ task' = <<>>
  /\ loading' = FALSE
  /\ UNCHANGED <<taskId, showBrowser, intervals, nextTaskId, caps, pure, log>>

(* runTask resolved: the rest of handleRun's try block and its finally *)
RunResolved(req, result) ==
  /\ req.kind = "run"
  /\ BagIn(req, pending)
  /\ pending' = Receive(req)
  /\ messages' = addMessage(removeMessage(messages, req.lmid),
                            nextMsgId, result, "assistant")
  /\ nextMsgId' = nextMsgId + 1
  /\ task' = <<>>
  /\ loading' = FALSE
  /\ UNCHANGED <<taskId, showBrowser, intervals, nextTaskId, caps, pure, log>>

(* handleRun without its finally block *)
RunRejectedStaysLoading(req) ==
  /\ req.kind = "run"
  /\ BagIn(req, pending)
  /\ pending' = pending (-) SetToBag({req})
  /\ messages' = Append(SelectSeq(messages, LAMBDA msg : msg.id # req.lmid),
                        [id |-> nextMsgId, type |-> "system",
                         content |-> RunErrorMsg])
  /\ nextMsgId' = nextMsgId + 1
  /\ UNCHANGED <<task, loading, taskId, showBrowser, intervals, nextTaskId,
                 caps, pure, log>>

(* runTask rejected: handleRun's catch and finally *)
RunRejected(req) ==
  /\ req.kind = "run"
  /\ BagIn(req, pending)
  /\ pending' = Receive(req)
  /\ messages' = addMessage(removeMessage(messages, req.lmid),
                            nextMsgId, RunErrorMsg, "system")
  /\ nextMsgId' = nextMsgId + 1
  /\ loading' = FALSE
  /\ UNCHANGED <<task, taskId, showBrowser, intervals, nextTaskId, caps, pure, log>>

(* createTask resolved: the task id is stored and the interval is created *)
CreateResolved(req) ==
  /\ req.kind = "create"
  /\ BagIn(req, pending)
  /\ pending' = Receive(req)
  /\ taskId' = nextTaskId
  /\ intervals' = intervals \cup {Interval(nextTaskId, req.lmid)}
  /\ nextTaskId' = nextTaskId + 1
  /\ UNCHANGED <<task, messages, loading, showBrowser, nextMsgId, caps, pure, log>>

(* the outer catch without the removal of the transient message *)
CreateRejectedKeepsTransient(req) ==
  /\ req.kind = "create"
  /\ BagIn(req, pending)
  /\ pending' = pending (-) SetToBag({req})
  /\ messages' = Append(messages, [id |-> nextMsgId, type |-> "system",
                                   content |-> StartErrorMsg])
  /\ nextMsgId' = nextMsgId + 1
  /\ loading' = FALSE
  /\ UNCHANGED <<task, taskId, showBrowser, intervals, nextTaskId, caps, pure, log>>

(* createTask rejected: the outer catch *)
CreateRejected(req) ==
  /\ req.kind = "create"
  /\ BagIn(req, pending)
  /\ pending' = Receive(req)
  /\ messages' = addMessage(removeMessage(messages, req.lmid),
                            nextMsgId, StartErrorMsg, "system")
  /\ nextMsgId' = nextMsgId + 1
  /\ loading' = FALSE
  /\ UNCHANGED <<task, taskId, showBrowser, intervals, nextTaskId, caps, pure, log>>

(* The interval fires: its callback calls getTaskStatus(newTaskId) *)
Tick(timer) ==
  /\ timer \in intervals
  /\ CopiesIn(StatusReq(timer), pending) < MaxInflight
  /\ pending' = Send(StatusReq(timer))
  /\ UNCHANGED <<ctl, intervals, nextMsgId, nextTaskId, caps, pure, log>>

(* getTaskStatus resolved: the callback's try block *)
StatusResolved(req, taskResult) ==
  /\ req.kind = "status"
  /\ BagIn(req, pending)
  /\ pending' = Receive(req)
  /\ IF Terminal(taskResult.status)
     THEN /\ intervals' = clearInterval(intervals, req.tid)
          /\ messages' =
               addMessage(removeMessage(messages, req.lmid), nextMsgId,
                          OrElse(combineResults(taskResult.results),
                                 taskResult.error, FallbackMsg),
                          "assistant")
          /\ nextMsgId' = nextMsgId + 1
          /\ loading' = FALSE
          /\ taskId' = 0
          /\ task' = <<>>
          /\ log' = Stopped(req.tid, TRUE)
     ELSE /\ log' = Waited(req.tid)
          /\ UNCHANGED <<task, messages, loading, taskId, intervals, nextMsgId>>
  /\ UNCHANGED <<showBrowser, nextTaskId, caps, pure>>

(* the callback's catch without clearInterval *)
StatusRejectedKeepsTimer(req) ==
  /\ req.kind = "status"
  /\ BagIn(req, pending)
  /\ pending' = pending (-) SetToBag({req})
  /\ messages' = Append(SelectSeq(messages, LAMBDA msg : msg.id # req.lmid),
                        [id |-> nextMsgId, type |-> "system",
                         content |-> StatusErrorMsg])
  /\ nextMsgId' = nextMsgId + 1
  /\ loading' = FALSE
  /\ taskId' = 0
  /\ UNCHANGED <<task, showBrowser, intervals, nextTaskId, caps, pure, log>>

(* getTaskStatus rejected: the callback's catch *)
StatusRejected(req) ==
  /\ req.kind = "status"
  /\ BagIn(req, pending)
  /\ pending' = Receive(req)
  /\ intervals' = clearInterval(intervals, req.tid)
  /\ messages' = addMessage(removeMessage(messages, req.lmid),
                            nextMsgId, StatusErrorMsg, "system")
  /\ nextMsgId' = nextMsgId + 1
  /\ loading' = FALSE
  /\ taskId' = 0
  /\ log' = Stopped(req.tid, FALSE)
  /\ UNCHANGED <<task, showBrowser, nextTaskId, caps, pure>>

(* The cancel button is rendered only when loading && taskId *)
CancelVisible == loading /\ taskId # 0

(* handleCancel up to its await; with no task id it returns at once *)
handleCancel ==
  \/ /\ taskId = 0
     /\ UNCHANGED vars
  \/ /\ CancelVisible
     /\ cancels < MaxCancels
     /\ pending' = Send(Req("cancel", taskId, 0, <<>>, <<>>, FALSE))
     /\ cancels' = cancels + 1
     /\ UNCHANGED <<ctl, intervals, nextMsgId, nextTaskId, submits, pure, log>>

(* handleCancel without setLoading(false) *)
CancelResolvedStaysLoading(req) ==
  /\ req.kind = "cancel"
  /\ BagIn(req, pending)
  /\ pending' = pending (-) SetToBag({req})
  /\ messages' = Append(messages, [id |-> nextMsgId, type |-> "system",
                                   content |-> CancelledMsg])
  /\ nextMsgId' = nextMsgId + 1
  /\ taskId' = 0
  /\ intervals' = {[timer EXCEPT !.cancelled = @ \/ timer.tid = req.tid] :
                     timer \in intervals}
  /\ UNCHANGED <<task, loading, showBrowser, nextTaskId, caps, pure, log>>

(* cancelTask resolved: the rest of handleCancel's try block.  No interval *)
(* is cleared; the one of the cancelled task is only marked.               *)
CancelResolved(req) ==
  /\ req.kind = "cancel"
  /\ BagIn(req, pending)
  /\ pending' = Receive(req)
  /\ messages' = addMessage(messages, nextMsgId, CancelledMsg, "system")
  /\ nextMsgId' = nextMsgId + 1
  /\ taskId' = 0
  /\ loading' = FALSE
  /\ intervals' = {[timer EXCEPT !.cancelled = @ \/ timer.tid = req.tid] :
                     timer \in intervals}
  /\ UNCHANGED <<task, showBrowser, nextTaskId, caps, pure, log>>

(* handleCancel's catch resetting the controller as the try block does *)
CancelRejectedClears(req) ==
  /\ req.kind = "cancel"
  /\ BagIn(req, pending)
  /\ pending' = pending (-) SetToBag({req})
  /\ messages' = Append(messages, [id |-> nextMsgId, type |-> "system",
                                   content |-> CancelErrorMsg])
  /\ nextMsgId' = nextMsgId + 1
  /\ taskId' = 0
  /\ loading' = FALSE
  /\ UNCHANGED <<task, showBrowser, intervals, nextTaskId, caps, pure, log>>

(* cancelTask rejected: handleCancel's catch *)
CancelRejected(req) ==
  /\ req.kind = "cancel"
  /\ BagIn(req, pending)
  /\ pending' = Receive(req)
  /\ messages' = addMessage(messages, nextMsgId, CancelErrorMsg, "system")
  /\ nextMsgId' = nextMsgId + 1
  /\ UNCHANGED <<task, loading, taskId, showBrowser, intervals, nextTaskId,
                 caps, pure, log>>

Next ==
  \/ \E t \in Inputs : TypeText(t)
  \/ toggleBrowserMode
  \/ handleRun
  \/ handleRunWithVisibleBrowser
  \/ \E req \in BagToSet(pending), result \in RunResults : RunResolved(req, result)
  \/ \E req \in BagToSet(pending) : RunRejected(req)
  \/ \E req \in BagToSet(pending) : CreateResolved(req)
  \/ \E req \in BagToSet(pending) : CreateRejected(req)
  \/ \E timer \in intervals : Tick(timer)
  \/ \E req \in BagToSet(pending), taskResult \in TaskResults :
       StatusResolved(req, taskResult)
  \/ \E req \in BagToSet(pending) : StatusRejected(req)
  \/ handleCancel
  \/ \E req \in BagToSet(pending) : CancelResolved(req)
  \/ \E req \in BagToSet(pending) : CancelRejected(req)

Spec == Init /\ [][Next]_vars

(* The service answers every request and every active interval keeps firing *)
StatusAnswered(tid) ==
  \E req \in StatusInFlight(tid) :
    \/ \E taskResult \in TaskResults : StatusResolved(req, taskResult)
    \/ StatusRejected(req)

OtherAnswered ==
  \E req \in BagToSet(pending) :
    \/ \E result \in RunResults : RunResolved(req, result)
    \/ RunRejected(req)
    \/ CreateResolved(req)
    \/ CreateRejected(req)
    \/ CancelResolved(req)
    \/ CancelRejected(req)

Fairness ==
  /\ \A tid \in 1..MaxSubmits :
       /\ WF_vars(\E timer \in intervals : timer.tid = tid /\ Tick(timer))
       /\ WF_vars(StatusAnswered(tid))
  /\ WF_vars(OtherAnswered)

FairSpec == Spec /\ Fairness

----------------------------------------------------------------------------
(* combineResults on its own: the input is drawn, the function is applied *)

StepKinds ==
  {[content |-> c, error |-> Absent] :
     c \in {Absent, <<<<>>>>, <<<<"c">>>>, <<<<"d", "\n">>>>}}
    \cup {[content |-> Absent, error |-> <<<<"x">>>>]}

CombineInputs ==
  {Absent} \cup {<<steps>> : steps \in UNION {[1..n -> StepKinds] : n \in 0..MaxSteps}}

InitCombine ==
  /\ task = <<>>
  /\ messages = <<>>
  /\ loading = FALSE
  /\ taskId = 0
  /\ showBrowser = FALSE
  /\ intervals = {}
  /\ pending = EmptyBag
  /\ nextMsgId = 1
  /\ nextTaskId = 1
  /\ submits = 0
  /\ cancels = 0
  /\ crIn \in CombineInputs
  /\ crOut = Absent
  /\ log = NoLog

Combine ==
  /\ crOut = Absent
  /\ crOut' = <<combineResults(crIn)>>
  /\ UNCHANGED <<ctl, env, caps, crIn, log>>

NextCombine == Combine

SpecCombine == InitCombine /\ [][NextCombine]_vars

----------------------------------------------------------------------------
(* Vocabulary of the claims *)

IsTransient(msg) ==
  msg.type = "system" /\ msg.content \in {RunningMsg, OpeningMsg}

Durable(ms) == SelectSeq(ms, LAMBDA msg : ~IsTransient(msg))

View(ms) == [i \in 1..Len(ms) |-> <<ms[i].type, ms[i].content>>]

IsPrefix(a, b) == Len(a) <= Len(b) /\ SubSeq(b, 1, Len(a)) = a

LastMessage == messages[Len(messages)]

Polled ==
  {timer.tid : timer \in intervals}
    \cup {req.tid : req \in {r \in BagToSet(pending) : r.kind = "status"}}

----------------------------------------------------------------------------
(* C1: once cancelTask has resolved for a task, no step issues another     *)
(* getTaskStatus call for that task (its interval no longer fires).        *)
NoPollAfterCancel ==
  [][\A timer \in intervals : timer.cancelled => ~Tick(timer)]_vars

(* C2: in every reachable state at most one interval is active and at most *)
(* one created task is being polled.                                       *)
AtMostOneTimerAndTask ==
  Cardinality(intervals) <= 1 /\ Cardinality(Polled) <= 1

(* C3: when the first terminal snapshot of a task is handled, every        *)
(* getTaskStatus call issued for it has been answered (k non-terminal      *)
(* answers and this one: k+1 calls, none still in flight) and none will    *)
(* follow (its interval is gone); the step appends one assistant message   *)
(* (the combined result when that is not empty) and leaves the task id     *)
(* empty and loading false.                                                *)
ExactlyKPlusOnePolls ==
  [][\A req \in BagToSet(pending), taskResult \in TaskResults :
       ( /\ StatusResolved(req, taskResult)
         /\ Terminal(taskResult.status)
         /\ \E timer \in intervals : timer.tid = req.tid )
       => /\ CopiesIn(req, pending') = 0
          /\ ~ \E timer \in intervals' : timer.tid = req.tid
          /\ Len(messages') = Len(removeMessage(messages, req.lmid)) + 1
          /\ messages'[Len(messages')].type = "assistant"
          /\ ( combineResults(taskResult.results) # <<>>
               => messages'[Len(messages')].content =
                    combineResults(taskResult.results) )
          /\ taskId' = 0
          /\ ~loading']_vars

(* C7: whenever a request is outstanding or an interval is active, loading *)
(* is true (input and submit disabled); cancel is offered only with a      *)
(* stored task id.                                                         *)
BusyMeansLoading ==
  /\ (pending # EmptyBag \/ intervals # {}) => loading
  /\ CancelVisible => taskId # 0

(* C4: a sync submission of text T started from Idle whose runTask         *)
(* resolves to R leaves the previous list followed by exactly the user     *)
(* message T and the assistant message R, with no transient message, the   *)
(* input cleared and loading false.                                        *)
SyncSuccessAddsUserAndAssistant ==
  [][\A req \in BagToSet(pending), result \in RunResults :
       (RunResolved(req, result) /\ req.idle0)
       => /\ IsPrefix(req.m0, messages')
          /\ View(messages') =
               View(req.m0) \o <<<<"user", req.text>>, <<"assistant", result>>>>
          /\ \A i \in 1..Len(messages') : ~IsTransient(messages'[i])
          /\ task' = <<>>
          /\ ~loading']_vars

SyncSuccessSeen ==
  /\ Idle
  /\ task = <<>>
  /\ Len(messages) = 4
  /\ View(SubSeq(messages, 3, 4)) =
       <<<<"user", <<" ", "a">>>>, <<"assistant", <<"r">>>>>>

(* C5: a sync submission started from Idle whose runTask rejects leaves    *)
(* the previous list followed by exactly the user message and a system     *)
(* error message: no assistant message, no transient message, loading      *)
(* false.                                                                  *)
SyncFailureAddsUserAndError ==
  [][\A req \in BagToSet(pending) :
       (RunRejected(req) /\ req.idle0)
       => /\ IsPrefix(req.m0, messages')
          /\ View(messages') =
               View(req.m0) \o <<<<"user", req.text>>, <<"system", RunErrorMsg>>>>
          /\ \A i \in 1..Len(messages') : ~IsTransient(messages'[i])
          /\ ~loading']_vars

SyncFailureSeen ==
  /\ Idle
  /\ Len(messages) = 4
  /\ View(SubSeq(messages, 3, 4)) =
       <<<<"user", <<" ", "a">>>>, <<"system", RunErrorMsg>>>>

(* C8: when cancelTask resolves, exactly one system "task cancelled"       *)
(* message is appended, the task id becomes empty and loading false; while *)
(* no task id is stored no cancel request is issued and handleCancel       *)
(* changes nothing.                                                        *)
CancelSuccessClears ==
  [][ /\ \A req \in BagToSet(pending) :
           CancelResolved(req)
           => /\ req.tid # 0
              /\ Len(messages') = Len(messages) + 1
              /\ IsPrefix(messages, messages')
              /\ <<messages'[Len(messages')].type,
                   messages'[Len(messages')].content>> = <<"system", CancelledMsg>>
              /\ taskId' = 0
              /\ ~loading'
      /\ taskId = 0
           => /\ \A req \in BagToSet(pending') :
                   req.kind = "cancel"
                   => CopiesIn(req, pending') <= CopiesIn(req, pending)
              /\ handleCancel => UNCHANGED <<ctl, env>> ]_vars

CancelSuccessSeen ==
  /\ messages # <<>>
  /\ LastMessage.content = CancelledMsg
  /\ taskId = 0
  /\ ~loading

(* C10: every step keeps all user, assistant and non-transient system      *)
(* messages, unchanged and in order, removes nothing but transient system  *)
(* messages, and puts what it adds at the end.                             *)
MessagesAppendOnly ==
  [][ /\ IsPrefix(Durable(messages), Durable(messages'))
      /\ \E k \in 0..Len(messages') :
           /\ SubSeq(messages', 1, k) =
                SelectSeq(messages,
                          LAMBDA msg : ~IsTransient(msg)
                                         \/ \E i \in 1..Len(messages') :
                                              messages'[i] = msg)
           /\ \A i \in (k + 1)..Len(messages') :
                messages'[i].id >= nextMsgId ]_vars

MessagesSurviveRemoval ==
  /\ Len(messages) = 4
  /\ View(messages) = <<<<"user", <<" ", "a">>>>, <<"system", RunErrorMsg>>,
                        <<"user", <<" ", "a">>>>, <<"assistant", <<"r">>>>>>

(* C6: once a failure of a client call has been reported, the controller   *)
(* eventually is Idle again (loading false, no task id, no interval, no    *)
(* request), the service answering every request.                          *)
FailureShown ==
  /\ messages # <<>>
  /\ LastMessage.type = "system"
  /\ LastMessage.content \in
       {RunErrorMsg, StartErrorMsg, StatusErrorMsg, CancelErrorMsg}

FailureReturnsToIdle == FailureShown ~> Idle

(* C9: combineResults gives the "No results" literal for an absent or      *)
(* empty sequence, and otherwise the non-empty contents, in input order,   *)
(* with the two-newline separator between neighbours.                      *)
RECURSIVE JoinedContents(_)
JoinedContents(steps) ==
  IF steps = <<>> THEN <<>>
  ELSE LET front == JoinedContents(SubSeq(steps, 1, Len(steps) - 1))
           c == steps[Len(steps)].content
       IN IF c = Absent \/ c[1] = <<>> THEN front
          ELSE IF front = <<>> THEN c[1]
          ELSE front \o <<"\n", "\n">> \o c[1]

CombineResultsContract ==
  crOut # Absent
  => IF crIn = Absent \/ crIn[1] = <<>>
     THEN crOut[1] = <<"No results">>
     ELSE crOut[1] = JoinedContents(crIn[1])

CombineDropsAndJoins ==
  /\ crIn = <<<<[content |-> <<<<"c">>>>, error |-> Absent],
                [content |-> Absent, error |-> <<<<"x">>>>],
                [content |-> <<<<"d", "\n">>>>, error |-> Absent]>>>>
  /\ crOut = <<<<"c", "\n", "\n", "d", "\n">>>>

(* C11: for each created task clearInterval runs at most once (exactly     *)
(* once when its polling has ended) and at most one assistant message is   *)
(* appended, whatever the interleaving of ticks and answers.               *)
StoppedOnceOneAssistant ==
  \A tid \in 1..MaxSubmits :
    /\ log[tid].stops <= 1
    /\ log[tid].assistants <= 1
    /\ (log[tid].stops = 0 /\ tid < nextTaskId)
         => \E timer \in intervals : timer.tid = tid

(* C12: a poll answer with a terminal status appends an assistant message  *)
(* whose content is combineResults(results) if that is non-empty, else the *)
(* snapshot's error if non-empty, else the fallback literal; the same step *)
(* stops the interval, removes the transient message and clears the task   *)
(* id and the input.                                                       *)
TerminalContent(taskResult) ==
  IF combineResults(taskResult.results) # <<>>
  THEN combineResults(taskResult.results)
  ELSE IF taskResult.error # Absent /\ taskResult.error[1] # <<>>
  THEN taskResult.error[1]
  ELSE FallbackMsg

TerminalAnswerHandled ==
  [][\A req \in BagToSet(pending), taskResult \in TaskResults :
       ( /\ StatusResolved(req, taskResult)
         /\ taskResult.status \in {"completed", "failed"} )
       => /\ Len(messages') = Len(removeMessage(messages, req.lmid)) + 1
          /\ View(messages') =
               View(removeMessage(messages, req.lmid))
                 \o <<<<"assistant", TerminalContent(taskResult)>>>>
          /\ \A i \in 1..Len(messages') : messages'[i].id # req.lmid
          /\ \A timer \in intervals' : timer.tid # req.tid
          /\ taskId' = 0
          /\ task' = <<>>]_vars

TerminalErrorShown ==
  /\ messages # <<>>
  /\ <<LastMessage.type, LastMessage.content>> = <<"assistant", <<"e">>>>
  /\ \A i \in 1..Len(messages) : ~IsTransient(messages[i])
  /\ intervals = {}
  /\ taskId = 0
  /\ task = <<>>
  /\ log[1].assistants = 1

(* C13: when cancelTask rejects, exactly one system error message is       *)
(* appended and loading, the task id and the intervals are unchanged (so   *)
(* a controller that was loading with a task id stays so).                 *)
CancelFailureKeepsState ==
  [][\A req \in BagToSet(pending) :
       CancelRejected(req)
       => /\ Len(messages') = Len(messages) + 1
          /\ IsPrefix(messages, messages')
          /\ <<messages'[Len(messages')].type,
               messages'[Len(messages')].content>> = <<"system", CancelErrorMsg>>
          /\ UNCHANGED <<loading, taskId, intervals, task>>]_vars

CancelFailureSeen ==
  /\ messages # <<>>
  /\ LastMessage.content = CancelErrorMsg
  /\ loading
  /\ taskId # 0
  /\ \E timer \in intervals : timer.tid = taskId

(* C14: when a getTaskStatus call of the poll callback rejects, the        *)
(* interval of that task is stopped and never fires again, the transient   *)
(* message is removed, exactly one system error message and no assistant   *)
(* message is appended, the task id is cleared and loading is false.       *)
PollFailureStops ==
  [][ /\ \A req \in BagToSet(pending) :
           StatusRejected(req)
           => /\ View(messages') =
                   View(removeMessage(messages, req.lmid))
                     \o <<<<"system", StatusErrorMsg>>>>
              /\ \A i \in 1..Len(messages') : messages'[i].id # req.lmid
              /\ \A timer \in intervals' : timer.tid # req.tid
              /\ log'[req.tid].assistants = log[req.tid].assistants
              /\ taskId' = 0
              /\ ~loading'
      /\ \A timer \in intervals :
           log[timer.tid].stops > 0 => ~Tick(timer) ]_vars

PollFailureSeen ==
  /\ messages # <<>>
  /\ LastMessage.content = StatusErrorMsg
  /\ log[1].stops = 1
  /\ log[1].assistants = 0
  /\ intervals = {}
  /\ taskId = 0
  /\ ~loading

(* C15: when createTask rejects, no interval is started and no             *)
(* getTaskStatus call is made for the submission; the transient message is *)
(* removed, a system error message is appended (right after the user       *)
(* message when the submission started from Idle), the task id is not set  *)
(* (it is empty after a submission from Idle) and loading is false.        *)
CreateFailureStartsNothing ==
  [][\A req \in BagToSet(pending) :
       CreateRejected(req)
       => /\ intervals' = intervals
          /\ nextTaskId' = nextTaskId
          /\ \A r \in BagToSet(pending') :
               r.kind = "status" => CopiesIn(r, pending') = CopiesIn(r, pending)
          /\ View(messages') =
               View(removeMessage(messages, req.lmid))
                 \o <<<<"system", StartErrorMsg>>>>
          /\ \A i \in 1..Len(messages') : messages'[i].id # req.lmid
          /\ taskId' = taskId
          /\ ~loading'
          /\ req.idle0
               => /\ View(messages') =
                       View(req.m0) \o <<<<"user", req.text>>,
                                         <<"system", StartErrorMsg>>>>
                  /\ taskId' = 0
                  /\ intervals' = {}]_vars

CreateFailureSeen ==
  /\ Idle
  /\ nextTaskId = 1
  /\ View(messages) = <<<<"user", <<" ", "a">>>>, <<"system", StartErrorMsg>>>>

(* C16: a poll answer whose status is neither completed nor failed leaves  *)
(* the message list, the input, loading, the task id and the intervals as  *)
(* they are; the interval stays active.                                    *)
NonTerminalAnswerChangesNothing ==
  [][\A req \in BagToSet(pending), taskResult \in TaskResults :
       ( /\ StatusResolved(req, taskResult)
         /\ taskResult.status \notin {"completed", "failed"} )
       => /\ UNCHANGED <<messages, task, loading, taskId, intervals>>
          /\ log[req.tid].stops = 0
               => \E timer \in intervals' : timer.tid = req.tid]_vars

NonTerminalAnswerSeen ==
  /\ log[1].waits = 1
  /\ \E timer \in intervals : timer.tid = 1 /\ ENABLED Tick(timer)
  /\ loading
  /\ taskId = 1
  /\ \E i \in 1..Len(messages) : IsTransient(messages[i])

(* C17: a poll answer for task X that arrives while X is not the tracked   *)
(* task and a later submission is still in flight leaves loading, the task *)
(* id and the input of that submission alone.                              *)
LaterInFlight(req) ==
  /\ loading
  /\ req.tid # taskId
  /\ \/ taskId # 0
     \/ \E r \in BagToSet(pending) : r.kind \in {"run", "create"}

StaleCallbackKeepsLaterSubmission ==
  [][\A req \in BagToSet(pending) :
       ( /\ req.kind = "status"
         /\ LaterInFlight(req)
         /\ \/ StatusRejected(req)
            \/ \E taskResult \in TaskResults : StatusResolved(req, taskResult) )
       => UNCHANGED <<loading, taskId, task>>]_vars

(* C18: whenever loading is false the message list holds no transient      *)
(* in-progress message.                                                    *)
NoTransientWhenNotLoading ==
  ~loading => \A i \in 1..Len(messages) : ~IsTransient(messages[i])

(* C19: a terminal snapshot with a non-empty error text and no step with   *)
(* non-empty content (results absent, empty, or all steps without content) *)
(* makes the poll callback append an assistant message showing that error. *)
NoContentStep(taskResult) ==
  \/ taskResult.results = Absent
  \/ \A i \in 1..Len(taskResult.results[1]) :
       \/ taskResult.results[1][i].content = Absent
       \/ taskResult.results[1][i].content[1] = <<>>

TerminalErrorWithoutContentShown ==
  [][\A req \in BagToSet(pending), taskResult \in TaskResults :
       ( /\ StatusResolved(req, taskResult)
         /\ taskResult.status \in {"completed", "failed"}
         /\ taskResult.error # Absent
         /\ taskResult.error[1] # <<>>
         /\ NoContentStep(taskResult) )
       => <<messages'[Len(messages')].type, messages'[Len(messages')].content>>
            = <<"assistant", taskResult.error[1]>>]_vars

(* C20: a submission with an empty or whitespace-only input changes        *)
(* nothing (no message, no request, loading, task id and input as before); *)
(* a submission whose runTask or createTask rejects leaves the input as it *)
(* was.                                                                    *)
Submissions(ms, reqs) ==
  <<Len(SelectSeq(ms, LAMBDA msg : msg.type = "user")),
    Cardinality({r \in BagToSet(reqs) : r.kind \in {"run", "create"}})>>

BlankSubmitNoOpFailureKeepsInput ==
  [][ /\ Trim(task) = <<>>
        => /\ (handleRun \/ handleRunWithVisibleBrowser) => UNCHANGED vars
           /\ Submissions(messages', pending')[1] = Submissions(messages, pending)[1]
           /\ Submissions(messages', pending')[2] <= Submissions(messages, pending)[2]
           /\ submits' = submits
      /\ \A req \in BagToSet(pending) :
           (RunRejected(req) \/ CreateRejected(req)) => task' = task ]_vars

FailedSubmissionKeepsInput ==
  /\ Idle
  /\ task = <<" ", "a">>
  /\ submits = 1
  /\ View(messages) \in {<<<<"user", task>>, <<"system", RunErrorMsg>>>>,
                         <<<<"user", task>>, <<"system", StartErrorMsg>>>>}

====
